---- MODULE Spec2Model ----
(***************************************************************************)
(* ProfilerEnum< EnumInterface, Element, pEnumInterfaceIID >               *)
(* (src/vm/profilingenumerators.h): the COM style enumerator template of   *)
(* the profiling API.  An enumerator owns a private copy of an array of    *)
(* elements (m_elements), a cursor (m_currentElement, a ULONG) and a       *)
(* reference count (m_refCount, a LONG).                                   *)
(*                                                                         *)
(* Spec        one caller driving Next / Skip / Reset / GetCount / Clone / *)
(*             QueryInterface / AddRef / Release on the enumerators of a   *)
(*             two slot heap (the constructed one and a clone).            *)
(* SpecSplit   Next(k); Next(N-k) on one fresh enumerator against Next(N)  *)
(*             on an equal fresh one.                                      *)
(* SpecThreads AddRef / Release issued by independent threads, Release     *)
(*             split at its one interleaving point (after the interlocked  *)
(*             decrement, before the test and the delete).                 *)
(*                                                                         *)
(* ULONG values are kept at their 32 bit width as a pair <<hi, lo>> of     *)
(* 16 bit halves, because TLC's integers stop at 2^31 - 1.                 *)
(***************************************************************************)
EXTENDS Integers, Sequences, FiniteSets, TLC

\* ------------------------------------------------------------------ bounds
\* longest source array handed to the constructor
MaxLen == 3
\* most references ever outstanding on one enumerator
MaxRefs == 2
\* largest small count a caller requests (besides the largest ULONG)
MaxCount == 3

\* the opaque element values (ObjectID, ModuleID, ThreadID, ...), all distinct:
\* the enumerator never inspects them
ElementNames == <<"A", "B", "C", "D", "E", "F">>
\* what a caller's buffer slot holds before Next writes it
Junk == "?"
\* the two heap slots
EnumIds == {"e1", "e2"}
Threads == {"t1", "t2", "t3"}

\* ------------------------------------------------------------------ ULONG
\* one 16 bit half of a ULONG
Half == 65536

ULONG(n) == <<n \div Half, n % Half>>

ULONG_MAX == <<Half - 1, Half - 1>>

\* the value of a ULONG as a number; from 2^30 on (past every array index the
\* model holds) it is reported as 2^30, the numbers of the checker being 32 bit
Val(u) == IF u[1] < 16384 THEN u[1] * Half + u[2] ELSE 1073741824

\* a + b on ULONG: wraps modulo 2^32
ULongAdd(a, b) ==
    LET lo == a[2] + b[2]
        hi == a[1] + b[1] + (lo \div Half)
    IN  <<hi % Half, lo % Half>>

\* a - b on ULONG: wraps modulo 2^32
ULongSub(a, b) ==
    LET lo == a[2] - b[2]
        borrow == IF lo < 0 THEN 1 ELSE 0
        hi == a[1] - b[1] - borrow
    IN  <<(hi + Half) % Half, (lo + Half) % Half>>

\* a < b on ULONG
ULongLess(a, b) == a[1] < b[1] \/ (a[1] = b[1] /\ a[2] < b[2])

\* the min macro: (((a) < (b)) ? (a) : (b))
min(a, b) == IF ULongLess(a, b) THEN a ELSE b

\* ------------------------------------------------------------------ CDynArray
\* CDynArray::Count()
Count(arr) == Len(arr)

\* CDynArray::operator[] (0 based); a read past the end yields no element
At(arr, i) == IF i + 1 \in DOMAIN arr THEN arr[i + 1] ELSE Junk

\* the source arrays: [A], [A,B], ... up to MaxLen elements, and the empty one
Sources == {SubSeq(ElementNames, 1, n) : n \in 0..MaxLen}

\* ------------------------------------------------------------------ state
VARIABLES
    source,     \* the array the first enumerator was constructed from
    heap,       \* EnumIds -> enumerator object (or a free slot)
    owner,      \* EnumIds -> the object whose allocation backs this one's m_elements
    last,       \* the last call of the single caller: arguments, pre-state, results
    split,      \* SpecSplit: the two runs being compared
    drain,      \* SpecDrain: a consumer looping on Next until nothing is fetched
    rev,        \* SpecReverse: one IterateAppDomainContainingModule walk
    m_refCount, \* SpecThreads: the shared reference count
    destroyed,  \* SpecThreads: the threads that ran `delete this`, in order
    held,       \* SpecThreads: references each thread holds
    pc,         \* SpecThreads: where each thread is inside Release
    refCount,   \* SpecThreads: Release's local `refCount` of each thread
    misuse      \* SpecThreads: an AddRef/Release touched a destroyed enumerator

vars == <<source, heap, owner, last, split, drain, rev, m_refCount, destroyed, held, pc, refCount, misuse>>

seqVars == <<source, heap, owner, last>>
splitVars == <<split, drain, rev>>
threadVars == <<m_refCount, destroyed, held, pc, refCount, misuse>>

\* ------------------------------------------------------------------ object
\* a slot holding no object
Free == [live |-> FALSE, m_elements |-> <<>>, m_currentElement |-> ULONG(0), m_refCount |-> 0]

\* the constructor's copy loop: m_elements[i] = (*elements)[i] for i < count
RECURSIVE CopyElements(_, _, _, _)
CopyElements(dst, elements, i, count) ==
    IF i < count
    THEN CopyElements(Append(dst, At(elements, i)), elements, i + 1, count)
    ELSE dst

\* ProfilerEnum(CDynArray< Element >* elements)
ProfilerEnum(elements) ==
    [live |-> TRUE,
     m_elements |-> CopyElements(<<>>, elements, 0, Count(elements)),
     m_currentElement |-> ULONG(0),
     m_refCount |-> 1]

\* variant: the constructor keeps the array it was handed instead of copying it
ElementsOwnerShared(from, made) == from

\* m_elements.AllocateBlockThrowing(count) and the copy loop: the array of the
\* object being constructed (`made`) lives in a block of its own, not in the
\* block of the array it was constructed from (`from`)
ElementsOwner(from, made) == made

\* what a later read finds in an array whose block was freed
Freed(arr) == [i \in DOMAIN arr |-> Junk]

\* ------------------------------------------------------------------ results
S_OK == "S_OK"
S_FALSE == "S_FALSE"
E_INVALIDARG == "E_INVALIDARG"
E_NOINTERFACE == "E_NOINTERFACE"
E_OUTOFMEMORY == "E_OUTOFMEMORY"

\* interface identifiers a caller may ask for
IID_Enum == "*pEnumInterfaceIID"
IID_IUnknown == "IID_IUnknown"
IID_Other == "IID_Other"
IIDs == {IID_Enum, IID_IUnknown, IID_Other}

\* contents of an interface pointer slot: NULL, a stale pointer the caller left
\* there, or a pointer to an enumerator of the heap
NULL == "NULL"
Stale == "stale"

\* what a ULONG output slot holds before a call writes it (0xDEADBEEF)
StaleULONG == <<57005, 48879>>

\* ------------------------------------------------------------------ IUnknown
\* variant: only the enumerator's own identifier is recognised
QISupportedOwnOnly(id) == id = IID_Enum

\* the two branches of QueryInterface that hand out `this`
QISupported(id) == id = IID_Enum \/ id = IID_IUnknown

\* variant: the failing branch returns without writing *pInterface
QIFailureSlotUntouched(before) == before

\* what the failing branch leaves in *pInterface
QIFailureSlot(before) == NULL

InterlockedIncrement(v) == v + 1

InterlockedDecrement(v) == v - 1

\* AddRef: return InterlockedIncrement(&m_refCount)
AddRefOp(en) ==
    LET r == InterlockedIncrement(en.m_refCount)
    IN  [ret |-> r, en |-> [en EXCEPT !.m_refCount = r]]

\* variant: the test compares against 1, the count before the decrement
ReleaseDeletesAtOne(refCountLocal) == 1 = refCountLocal

\* Release's test `0 == refCount` on the value the decrement returned
ReleaseDeletes(refCountLocal) == 0 = refCountLocal

\* Release: decrement, delete this at zero, return the decremented count
ReleaseOp(en) ==
    LET r == InterlockedDecrement(en.m_refCount)
    IN  [ret |-> r,
         en |-> IF ReleaseDeletes(r) THEN Free ELSE [en EXCEPT !.m_refCount = r]]

\* QueryInterface(id, pInterface) on the enumerator in slot e; `before` is what
\* the caller's slot held
QueryInterfaceOp(e, en, id, before) ==
    IF QISupported(id)
    THEN [hr |-> S_OK, iface |-> e, en |-> AddRefOp(en).en]
    ELSE [hr |-> E_NOINTERFACE, iface |-> QIFailureSlot(before), en |-> en]

\* ------------------------------------------------------------------ Next
\* _ASSERTE(0 <= m_currentElement); _ASSERTE(m_currentElement <= Count())
CursorAsserts(en) ==
    /\ ~ULongLess(en.m_currentElement, ULONG(0))
    /\ ~ULongLess(ULONG(Count(en.m_elements)), en.m_currentElement)

\* variant: clamps against the array's length, not against what remains
ElementsToCopyFromStart(en, elementsRequested) ==
    min(elementsRequested, ULONG(Count(en.m_elements)))

\* min(elementsRequested, m_elements.Count() - m_currentElement)
ElementsToCopy(en, elementsRequested) ==
    min(elementsRequested, ULongSub(ULONG(Count(en.m_elements)), en.m_currentElement))

\* variant: the copy reads m_elements[i], forgetting the cursor
NextSourceIndexFromStart(en, i) == i

\* for (i = 0; i < elementsToCopy; ++i) elements[i] = m_elements[m_currentElement + i]
NextSourceIndex(en, i) == Val(en.m_currentElement) + i

RECURSIVE CopyLoop(_, _, _, _)
CopyLoop(elements, en, i, elementsToCopy) ==
    IF ULongLess(ULONG(i), elementsToCopy) /\ i + 1 \in DOMAIN elements
    THEN CopyLoop([elements EXCEPT ![i + 1] = At(en.m_elements, NextSourceIndex(en, i))],
                  en, i + 1, elementsToCopy)
    ELSE elements

\* variant: the cursor is not advanced
AdvanceStay(en, n) == en

\* variant: a destructive read, the slots behind the cursor are given up
AdvanceConsuming(en, n) ==
    LET to == ULongAdd(en.m_currentElement, n)
    IN  [en EXCEPT !.m_currentElement = to,
                   !.m_elements = [i \in DOMAIN @ |-> IF i <= Val(to) THEN Junk ELSE @[i]]]

\* m_currentElement += n
Advance(en, n) == [en EXCEPT !.m_currentElement = ULongAdd(en.m_currentElement, n)]

\* variant: `<=` for `<` in the completion test
CompletionOffByOne(done, requested) ==
    IF ~ULongLess(requested, done) THEN S_FALSE ELSE S_OK

\* the completion code of Next and Skip
Completion(done, requested) == IF ULongLess(done, requested) THEN S_FALSE ELSE S_OK

\* variant: the first corner case is not checked
NextNeedsFetchedNever(elementsRequested, hasFetched) == FALSE

\* variant: elementsFetched is demanded whatever the count
NextNeedsFetchedAlways(elementsRequested, hasFetched) == ~hasFetched

\* variant: `0 < elementsRequested` for `1 < elementsRequested`
NextNeedsFetchedFromOne(elementsRequested, hasFetched) ==
    ~hasFetched /\ ULongLess(ULONG(0), elementsRequested)

\* Next's first corner case
NextNeedsFetched(elementsRequested, hasFetched) ==
    ~hasFetched /\ ULongLess(ULONG(1), elementsRequested)

\* Next(elementsRequested, elements, elementsFetched): hasElements / hasFetched
\* say whether the two pointers are non-NULL, elements / fetched what they point at
NextOp(en, elementsRequested, hasElements, elements, hasFetched, fetched) ==
    LET same == [hr |-> E_INVALIDARG, en |-> en, elements |-> elements,
                 fetched |-> fetched, asserts |-> CursorAsserts(en)]
    IN
    IF NextNeedsFetched(elementsRequested, hasFetched) THEN same
    ELSE IF elementsRequested = ULONG(0)
    THEN [same EXCEPT !.hr = S_OK,
                      !.fetched = IF hasFetched THEN ULONG(0) ELSE fetched]
    ELSE IF ~hasElements THEN same
    ELSE LET elementsToCopy == ElementsToCopy(en, elementsRequested)
             after == Advance(en, elementsToCopy)
         IN  [hr |-> Completion(elementsToCopy, elementsRequested),
              en |-> after,
              elements |-> CopyLoop(elements, en, 0, elementsToCopy),
              fetched |-> IF hasFetched THEN elementsToCopy ELSE fetched,
              asserts |-> CursorAsserts(en) /\ CursorAsserts(after)]

\* ------------------------------------------------------------------ the rest
\* variant: GetCount yields the total, not what remains
GetCountOpTotal(en, hasCount, count) ==
    IF ~hasCount THEN [hr |-> E_INVALIDARG, count |-> count]
    ELSE [hr |-> S_OK, count |-> ULONG(Count(en.m_elements))]

\* GetCount(count): *count = m_elements.Count() - m_currentElement
GetCountOp(en, hasCount, count) ==
    IF ~hasCount THEN [hr |-> E_INVALIDARG, count |-> count]
    ELSE [hr |-> S_OK,
          count |-> ULongSub(ULONG(Count(en.m_elements)), en.m_currentElement)]

\* variant: the count is not clamped
ElementsToSkipUnclamped(en, count) == count

\* min(count, m_elements.Count() - m_currentElement)
ElementsToSkip(en, count) ==
    min(count, ULongSub(ULONG(Count(en.m_elements)), en.m_currentElement))

\* Skip(count)
SkipOp(en, count) ==
    LET elementsToSkip == ElementsToSkip(en, count)
    IN  [hr |-> Completion(elementsToSkip, count), en |-> Advance(en, elementsToSkip)]

\* variant: Reset reports success and leaves the cursor
ResetOpKeepsCursor(en) == [hr |-> S_OK, en |-> en]

\* Reset(): m_currentElement = 0
ResetOp(en) == [hr |-> S_OK, en |-> [en EXCEPT !.m_currentElement = ULONG(0)]]

\* variant: the clone is made from what remains after the cursor
CloneOpRemaining(en, hasInterface, before, slot) ==
    IF ~hasInterface THEN [hr |-> E_INVALIDARG, iface |-> before, made |-> Free]
    ELSE IF slot = NULL THEN [hr |-> E_OUTOFMEMORY, iface |-> NULL, made |-> Free]
    ELSE [hr |-> S_OK, iface |-> slot,
          made |-> ProfilerEnum(SubSeq(en.m_elements, Val(en.m_currentElement) + 1,
                                       Len(en.m_elements)))]

\* variant: the catch block reports the failure and leaves *pInterface
CloneOpLeavesSlot(en, hasInterface, before, slot) ==
    IF ~hasInterface THEN [hr |-> E_INVALIDARG, iface |-> before, made |-> Free]
    ELSE IF slot = NULL THEN [hr |-> E_OUTOFMEMORY, iface |-> before, made |-> Free]
    ELSE [hr |-> S_OK, iface |-> slot, made |-> ProfilerEnum(en.m_elements)]

\* Clone(pInterface): `slot` is the heap slot the allocation lands in, or NULL
\* when the allocation throws
CloneOp(en, hasInterface, before, slot) ==
    IF ~hasInterface THEN [hr |-> E_INVALIDARG, iface |-> before, made |-> Free]
    ELSE IF slot = NULL THEN [hr |-> E_OUTOFMEMORY, iface |-> NULL, made |-> Free]
    ELSE [hr |-> S_OK, iface |-> slot, made |-> ProfilerEnum(en.m_elements)]

\* ------------------------------------------------------------------ Spec
\* the requested counts a caller passes: the small ones around the array's
\* length and the largest ULONG
Counts == {ULONG(n) : n \in 0..MaxCount} \cup {ULONG_MAX}

\* the caller's buffer for Next(count, ...): whatever the count, the model
\* observes the first MaxLen + 1 slots of the caller's memory, so that a write
\* the call should not make (past the count, or with a count of 0) shows
Buffer(count) == [i \in 1..(MaxLen + 1) |-> Junk]

NoCall ==
    [op |-> "none", e |-> "e1", count |-> ULONG(0), hasBuf |-> FALSE, hasOut |-> FALSE,
     iid |-> IID_Other, before |-> NULL, hr |-> S_OK, ret |-> 0, buf |-> <<>>,
     fetched |-> StaleULONG, iface |-> NULL, pre |-> [x \in EnumIds |-> Free],
     asserts |-> TRUE, allocated |-> FALSE]

Call(op, e) == [NoCall EXCEPT !.op = op, !.e = e, !.pre = heap]

Live == {e \in EnumIds : heap[e].live}

\* SpecSplit's and SpecThreads' variables at rest
SplitIdle ==
    [k |-> 0, hasOut |-> FALSE, a |-> Free, b |-> Free, stepA |-> 0, stepB |-> 0,
     outA |-> <<>>, outB |-> <<>>, rejected |-> FALSE]

\* SpecDrain's and SpecReverse's variables at rest
DrainIdle ==
    [en |-> Free, start |-> 0, hasOut |-> FALSE, got |-> <<>>, calls |-> 0,
     zero |-> FALSE, zeroHrs |-> {}, late |-> 0]

RevIdle ==
    [loaded |-> <<>>, m_cAppDomainIds |-> 0, m_rgAppDomainIds |-> <<>>, m_index |-> 0,
     walked |-> 0, pcAppDomainIds |-> 0, hr |-> "none"]

ThreadsIdle ==
    /\ m_refCount = 0
    /\ destroyed = <<>>
    /\ held = [t \in Threads |-> 0]
    /\ pc = [t \in Threads |-> "idle"]
    /\ refCount = [t \in Threads |-> -1]
    /\ misuse = FALSE

Init ==
    /\ source \in Sources
    /\ heap = [e \in EnumIds |-> IF e = "e1" THEN ProfilerEnum(source) ELSE Free]
    /\ owner = [e \in EnumIds |-> e]
    /\ last = NoCall
    /\ split = SplitIdle
    /\ drain = DrainIdle
    /\ rev = RevIdle
    /\ ThreadsIdle

DoNext ==
    \E e \in Live, count \in Counts, hasBuf \in BOOLEAN, hasOut \in BOOLEAN :
        LET r == NextOp(heap[e], count, hasBuf, IF hasBuf THEN Buffer(count) ELSE <<>>,
                        hasOut, StaleULONG)
        IN  /\ heap' = [heap EXCEPT ![e] = r.en]
            /\ last' = [Call("Next", e) EXCEPT !.count = count, !.hasBuf = hasBuf,
                            !.hasOut = hasOut, !.hr = r.hr, !.buf = r.elements,
                            !.fetched = r.fetched, !.asserts = r.asserts]
            /\ UNCHANGED <<source, owner, splitVars, threadVars>>

DoSkip ==
    \E e \in Live, count \in Counts :
        LET r == SkipOp(heap[e], count)
        IN  /\ heap' = [heap EXCEPT ![e] = r.en]
            /\ last' = [Call("Skip", e) EXCEPT !.count = count, !.hr = r.hr]
            /\ UNCHANGED <<source, owner, splitVars, threadVars>>

DoReset ==
    \E e \in Live :
        LET r == ResetOp(heap[e])
        IN  /\ heap' = [heap EXCEPT ![e] = r.en]
            /\ last' = [Call("Reset", e) EXCEPT !.hr = r.hr]
            /\ UNCHANGED <<source, owner, splitVars, threadVars>>

DoGetCount ==
    \E e \in Live, hasOut \in BOOLEAN :
        LET r == GetCountOp(heap[e], hasOut, StaleULONG)
        IN  /\ last' = [Call("GetCount", e) EXCEPT !.hasOut = hasOut, !.hr = r.hr,
                            !.fetched = r.count]
            /\ UNCHANGED <<heap, source, owner, splitVars, threadVars>>

\* the allocation inside Clone either lands in a free slot of the heap or throws;
\* with no slot free it throws
DoClone ==
    \E e \in Live, hasOut \in BOOLEAN, before \in {Stale},
       slot \in {f \in EnumIds : ~heap[f].live} \cup {NULL} :
        LET r == CloneOp(heap[e], hasOut, before, slot)
        IN  /\ heap' = IF r.hr = S_OK THEN [heap EXCEPT ![slot] = r.made] ELSE heap
            /\ owner' = IF r.hr = S_OK
                         THEN [owner EXCEPT ![slot] = ElementsOwner(owner[e], slot)]
                         ELSE owner
            /\ last' = [Call("Clone", e) EXCEPT !.hasOut = hasOut, !.before = before,
                            !.hr = r.hr, !.iface = r.iface, !.allocated = (slot # NULL)]
            /\ UNCHANGED <<source, splitVars, threadVars>>

\* pInterface is dereferenced unconditionally: the caller always passes a slot
DoQueryInterface ==
    \E e \in Live, id \in IIDs, before \in {NULL, Stale} :
        /\ QISupported(id) => heap[e].m_refCount < MaxRefs
        /\ LET r == QueryInterfaceOp(e, heap[e], id, before)
           IN  /\ heap' = [heap EXCEPT ![e] = r.en]
               /\ last' = [Call("QueryInterface", e) EXCEPT !.iid = id, !.before = before,
                               !.hr = r.hr, !.iface = r.iface]
        /\ UNCHANGED <<source, owner, splitVars, threadVars>>

DoAddRef ==
    \E e \in Live :
        /\ heap[e].m_refCount < MaxRefs
        /\ LET r == AddRefOp(heap[e])
           IN  /\ heap' = [heap EXCEPT ![e] = r.en]
               /\ last' = [Call("AddRef", e) EXCEPT !.ret = r.ret]
        /\ UNCHANGED <<source, owner, splitVars, threadVars>>

\* `delete this` runs ~ProfilerEnum, which frees the block of m_elements: an
\* object whose array lived in the same block reads freed memory from then on
\* (intact or overwritten)
DoRelease ==
    \E e \in Live :
        LET r == ReleaseOp(heap[e])
            dangling == IF r.en.live THEN {}
                        ELSE {f \in Live \ {e} : owner[f] = owner[e]}
        IN  /\ \E overwritten \in (IF dangling = {} THEN {FALSE} ELSE BOOLEAN) :
                  heap' = [f \in EnumIds |->
                              IF f = e THEN r.en
                              ELSE IF f \in dangling /\ overwritten
                              THEN [heap[f] EXCEPT !.m_elements = Freed(@)]
                              ELSE heap[f]]
            /\ owner' = IF r.en.live THEN owner
                         ELSE [f \in EnumIds |-> IF f = e \/ f \in dangling THEN f ELSE owner[f]]
            /\ last' = [Call("Release", e) EXCEPT !.ret = r.ret]
            /\ UNCHANGED <<source, splitVars, threadVars>>

Next ==
    \/ DoNext
    \/ DoSkip
    \/ DoReset
    \/ DoGetCount
    \/ DoClone
    \/ DoQueryInterface
    \/ DoAddRef
    \/ DoRelease

Spec == Init /\ [][Next]_vars

\* ------------------------------------------------------------------ SpecSplit
\* what a call yielded: the slots of the caller's buffer it wrote
Yield(buf) == SelectSeq(buf, LAMBDA x : x # Junk)

SplitInit ==
    /\ source \in Sources
    /\ heap = [e \in EnumIds |-> Free]
    /\ owner = [e \in EnumIds |-> e]
    /\ last = NoCall
    /\ \E k \in 0..Len(source), hasOut \in BOOLEAN :
          split = [SplitIdle EXCEPT !.k = k, !.hasOut = hasOut,
                                    !.a = ProfilerEnum(source), !.b = ProfilerEnum(source)]
    /\ drain = DrainIdle
    /\ rev = RevIdle
    /\ ThreadsIdle

\* one Next(n, buffer, fetched?) of a run
SplitCall(en, n) == NextOp(en, ULONG(n), TRUE, Buffer(ULONG(n)), split.hasOut, StaleULONG)

\* run A, first call: Next(k)
SplitFirst ==
    /\ split.stepA = 0
    /\ LET r == SplitCall(split.a, split.k)
       IN  split' = [split EXCEPT !.a = r.en, !.stepA = 1,
                                  !.outA = split.outA \o Yield(r.elements),
                                  !.rejected = split.rejected \/ r.hr = E_INVALIDARG]
    /\ UNCHANGED <<seqVars, drain, rev, threadVars>>

\* run A, second call: Next(N - k)
SplitSecond ==
    /\ split.stepA = 1
    /\ LET r == SplitCall(split.a, Len(source) - split.k)
       IN  split' = [split EXCEPT !.a = r.en, !.stepA = 2,
                                  !.outA = split.outA \o Yield(r.elements),
                                  !.rejected = split.rejected \/ r.hr = E_INVALIDARG]
    /\ UNCHANGED <<seqVars, drain, rev, threadVars>>

\* run B, its one call: Next(N)
SplitWhole ==
    /\ split.stepB = 0
    /\ LET r == SplitCall(split.b, Len(source))
       IN  split' = [split EXCEPT !.b = r.en, !.stepB = 1,
                                  !.outB = split.outB \o Yield(r.elements),
                                  !.rejected = split.rejected \/ r.hr = E_INVALIDARG]
    /\ UNCHANGED <<seqVars, drain, rev, threadVars>>

SplitNext == SplitFirst \/ SplitSecond \/ SplitWhole

SpecSplit == SplitInit /\ [][SplitNext]_vars

\* ------------------------------------------------------------------ SpecThreads
\* most references the threads ever hold together
MaxShared == 3

RECURSIVE SumOver(_, _)
SumOver(f, S) ==
    IF S = {} THEN 0
    ELSE LET t == CHOOSE x \in S : TRUE IN f[t] + SumOver(f, S \ {t})

\* references outstanding
Outstanding == SumOver(held, Threads)

\* variant: Release tests the shared field again instead of the returned value
ReleaseObservesShared(local, shared) == shared

\* the count Release tests: the value its own decrement returned (local), not
\* the shared field as it is by then
ReleaseObserves(local, shared) == local

\* after construction: one reference, held by the constructing thread
ThreadsInit ==
    /\ source \in {SubSeq(ElementNames, 1, MaxLen)}
    /\ heap = [e \in EnumIds |-> Free]
    /\ owner = [e \in EnumIds |-> e]
    /\ last = NoCall
    /\ split = SplitIdle
    /\ drain = DrainIdle
    /\ rev = RevIdle
    /\ m_refCount = 1
    /\ destroyed = <<>>
    /\ held = [t \in Threads |-> IF t = "t1" THEN 1 ELSE 0]
    /\ pc = [t \in Threads |-> "idle"]
    /\ refCount = [t \in Threads |-> -1]
    /\ misuse = FALSE

\* thread t, holding a reference, calls AddRef and hands the new reference to u
ThreadAddRef ==
    \E t \in Threads, u \in Threads :
        /\ pc[t] = "idle"
        /\ held[t] >= 1
        /\ m_refCount < MaxShared
        /\ m_refCount' = InterlockedIncrement(m_refCount)
        /\ held' = [held EXCEPT ![u] = @ + 1]
        /\ misuse' = (misuse \/ destroyed # <<>>)
        /\ UNCHANGED <<seqVars, splitVars, destroyed, pc, refCount>>

\* Release, up to the interlocked decrement: t gives up one reference it holds
ThreadReleaseDecrement ==
    \E t \in Threads :
        /\ pc[t] = "idle"
        /\ held[t] >= 1
        /\ m_refCount' = InterlockedDecrement(m_refCount)
        /\ refCount' = [refCount EXCEPT ![t] = m_refCount']
        /\ held' = [held EXCEPT ![t] = @ - 1]
        /\ pc' = [pc EXCEPT ![t] = "test"]
        /\ misuse' = (misuse \/ destroyed # <<>>)
        /\ UNCHANGED <<seqVars, splitVars, destroyed>>

\* Release, the rest: if (0 == refCount) delete this; return refCount
ThreadReleaseTest ==
    \E t \in Threads :
        /\ pc[t] = "test"
        /\ destroyed' = IF ReleaseDeletes(ReleaseObserves(refCount[t], m_refCount))
                        THEN Append(destroyed, t) ELSE destroyed
        /\ pc' = [pc EXCEPT ![t] = "idle"]
        /\ UNCHANGED <<seqVars, splitVars, m_refCount, held, refCount, misuse>>

ThreadsNext == ThreadAddRef \/ ThreadReleaseDecrement \/ ThreadReleaseTest

SpecThreads == ThreadsInit /\ [][ThreadsNext]_vars

\* ------------------------------------------------------------------ SpecDrain
\* calls a consumer makes before it gives up: enough to read MaxLen elements
\* one at a time and to go on calling after the end was reported
MaxCalls == MaxLen + 3

\* a consumer holding an enumerator whose cursor stands anywhere (a fresh one
\* after Skip(start)) and passing, or not, the fetched-count output
DrainInit ==
    /\ source \in Sources
    /\ heap = [e \in EnumIds |-> Free]
    /\ owner = [e \in EnumIds |-> e]
    /\ last = NoCall
    /\ split = SplitIdle
    /\ \E start \in 0..Len(source), hasOut \in BOOLEAN :
          drain = [DrainIdle EXCEPT !.en = SkipOp(ProfilerEnum(source), ULONG(start)).en,
                                    !.start = start, !.hasOut = hasOut]
    /\ rev = RevIdle
    /\ ThreadsIdle

\* the consumer's loop body: one valid Next(k >= 1, buffer, fetched?), no Reset
DrainCall ==
    /\ drain.calls < MaxCalls
    /\ \E k \in Counts \ {ULONG(0)} :
          /\ drain.hasOut \/ k = ULONG(1)
          /\ LET r == NextOp(drain.en, k, TRUE, Buffer(k), drain.hasOut, StaleULONG)
                 y == Yield(r.elements)
             IN  drain' = [drain EXCEPT
                              !.en = r.en,
                              !.got = drain.got \o y,
                              !.calls = drain.calls + 1,
                              !.zero = drain.zero \/ y = <<>>,
                              !.zeroHrs = IF y = <<>> THEN drain.zeroHrs \cup {r.hr}
                                          ELSE drain.zeroHrs,
                              !.late = IF drain.zero THEN drain.late + Len(y)
                                       ELSE drain.late]
    /\ UNCHANGED <<seqVars, split, rev, threadVars>>

\* the consumer keeps looping: its next call is always made
SpecDrain == DrainInit /\ [][DrainCall]_vars /\ WF_vars(DrainCall)

\* ------------------------------------------------------------------ SpecReverse
\* IterateAppDomainContainingModule: the scan of all domains for one module
MaxDomains == 3

DomainNames == <<"D1", "D2", "D3", "D4", "D5">>
\* the host's domains in the order the walk meets them
Domains == SubSeq(DomainNames, 1, MaxDomains)
\* how a domain holds the module: not at all, in its private load set, or by
\* a shared load visible to it
LoadKinds == {"none", "private", "shared"}
ERROR_INSUFFICIENT_BUFFER == "ERROR_INSUFFICIENT_BUFFER"

\* the membership test of one domain
ContainsModule(kind) == kind \in {"private", "shared"}

\* the write is made only while the write cursor is below the capacity
MayWriteAtCapacity(index, capacity) == index <= capacity
MayWrite(index, capacity) == index < capacity

\* the required count goes up on every match
TallyWhenWritten(tally, wrote) == IF wrote THEN tally + 1 ELSE tally
Tally(tally, wrote) == tally + 1

\* one domain of the walk
AddAppDomainContainingModule(it, d) ==
    IF ContainsModule(it.loaded[d])
    THEN LET wrote == MayWrite(it.m_index, it.m_cAppDomainIds)
         IN  [it EXCEPT
                !.m_rgAppDomainIds = IF wrote
                                     THEN [@ EXCEPT ![it.m_index + 1] = Domains[d]]
                                     ELSE @,
                !.m_index = IF wrote THEN @ + 1 ELSE @,
                !.pcAppDomainIds = Tally(@, wrote),
                !.walked = d]
    ELSE [it EXCEPT !.walked = d]

RECURSIVE WalkDomains(_, _)
WalkDomains(it, d) ==
    IF d > Len(Domains) THEN it
    ELSE WalkDomains(AddAppDomainContainingModule(it, d), d + 1)

\* the result after the walk
PopulateResult(required, capacity) ==
    IF required > capacity THEN ERROR_INSUFFICIENT_BUFFER ELSE S_OK

PopulateArrayOp(it) ==
    LET done == WalkDomains(it, 1)
    IN  [done EXCEPT !.hr = PopulateResult(done.pcAppDomainIds, done.m_cAppDomainIds)]

\* the constructor: a module, a capacity, the count output at zero and a
\* buffer; the memory after the buffer's capacity is part of the view, so a
\* write beyond it shows
RevInit ==
    /\ source = <<>>
    /\ heap = [e \in EnumIds |-> Free]
    /\ owner = [e \in EnumIds |-> e]
    /\ last = NoCall
    /\ split = SplitIdle
    /\ drain = DrainIdle
    /\ \E loaded \in [1..MaxDomains -> LoadKinds], capacity \in 0..(MaxDomains + 1) :
          rev = [RevIdle EXCEPT
                    !.loaded = loaded,
                    !.m_cAppDomainIds = capacity,
                    !.m_rgAppDomainIds = [i \in 1..(MaxDomains + 2) |-> Junk],
                    !.m_index = 0]
    /\ ThreadsIdle

PopulateArray ==
    /\ rev.hr = "none"
    /\ rev.loaded # <<>>
    /\ rev' = PopulateArrayOp(rev)
    /\ UNCHANGED <<seqVars, split, drain, threadVars>>

SpecReverse == RevInit /\ [][PopulateArray]_vars

\* ------------------------------------------------------------------ claims
\* the enumerator the last call was made on, before and after the call
Pre == last.pre[last.e]
Post == heap[last.e]
PreN == Len(Pre.m_elements)
PreCursor == Val(Pre.m_currentElement)

\* min(k, m) for a ULONG k and a number m
MinOf(k, m) == IF ULongLess(k, ULONG(m)) THEN Val(k) ELSE m

\* the last Next call was not one of the InvalidArgument cases
ValidNext ==
    /\ last.op = "Next"
    /\ last.hasOut \/ ~ULongLess(ULONG(1), last.count)
    /\ last.hasBuf \/ last.count = ULONG(0)

\* C1: a valid Next(k >= 1, buffer, fetched?) copies exactly the elements at
\* positions c .. c+min(k, N-c)-1 into the buffer in order (and writes no other
\* slot), advances the cursor by min(k, N-c) and writes that number to the
\* fetched-count output when it is provided.
C1_NextCopies ==
    (ValidNext /\ last.count # ULONG(0) /\ last.hasBuf) =>
        LET n == MinOf(last.count, PreN - PreCursor)
        IN  /\ \A i \in DOMAIN last.buf :
                  last.buf[i] = IF i <= n THEN Pre.m_elements[PreCursor + i] ELSE Junk
            /\ Len(last.buf) >= n
            /\ Post.m_currentElement = ULONG(PreCursor + n)
            /\ last.fetched = IF last.hasOut THEN ULONG(n) ELSE StaleULONG

C1_Witness ==
    /\ ValidNext
    /\ last.count = ULONG(2)
    /\ PreCursor = 1
    /\ Yield(last.buf) = <<"B", "C">>
    /\ last.fetched = ULONG(2)
    /\ Post.m_currentElement = ULONG(3)

\* the scenario on [A,B,C,D,E]: Next(3), Next(10), Next(1)
ScenarioABCDE ==
    LET e0 == ProfilerEnum(SubSeq(ElementNames, 1, 5))
        buf(n) == [i \in 1..n |-> Junk]
        r1 == NextOp(e0, ULONG(3), TRUE, buf(3), TRUE, StaleULONG)
        r2 == NextOp(r1.en, ULONG(10), TRUE, buf(10), TRUE, StaleULONG)
        r3 == NextOp(r2.en, ULONG(1), TRUE, buf(1), TRUE, StaleULONG)
    IN  /\ Yield(r1.elements) = <<"A", "B", "C">> /\ r1.hr = S_OK
        /\ r1.en.m_currentElement = ULONG(3)
        /\ Yield(r2.elements) = <<"D", "E">> /\ r2.hr = S_FALSE
        /\ r2.en.m_currentElement = ULONG(5)
        /\ Yield(r3.elements) = <<>> /\ r3.hr = S_FALSE
        /\ r3.en.m_currentElement = ULONG(5)

\* C2: a valid Next(k) returns S_OK exactly when the number of elements fetched
\* equals k and S_FALSE otherwise, never an error; Next(k >= 1) at cursor = N
\* returns S_FALSE with fetched = 0 and leaves the cursor at N.
C2_NextCompletion ==
    /\ ValidNext =>
          /\ last.hr \in {S_OK, S_FALSE}
          /\ last.hr = S_OK <=> ULONG(Len(Yield(last.buf))) = last.count
          /\ last.hasOut => last.fetched = ULONG(Len(Yield(last.buf)))
          /\ (last.count # ULONG(0) /\ PreCursor = PreN) =>
                /\ last.hr = S_FALSE
                /\ Yield(last.buf) = <<>>
                /\ Post.m_currentElement = ULONG(PreN)
    /\ ScenarioABCDE

C2_Witness ==
    /\ ValidNext
    /\ last.count = ULONG(1)
    /\ PreN = 3
    /\ PreCursor = 3
    /\ last.hr = S_FALSE
    /\ last.hasOut /\ last.fetched = ULONG(0)

\* C3: for every split 0 <= k <= N, Next(k) then Next(N-k) on a fresh enumerator
\* yields, concatenated, the same elements as one Next(N) on an equal fresh
\* enumerator, and both runs end with cursor = N (the three calls being valid
\* ones: none rejected as InvalidArgument).
C3_SplitEqualsWhole ==
    (split.stepA = 2 /\ split.stepB = 1 /\ ~split.rejected) =>
        /\ split.outA = split.outB
        /\ split.a.m_currentElement = ULONG(Len(source))
        /\ split.b.m_currentElement = ULONG(Len(source))

C3_Witness ==
    /\ split.stepA = 2 /\ split.stepB = 1 /\ ~split.rejected
    /\ split.k = 1
    /\ split.outA = <<"A", "B", "C">>
    /\ split.outB = <<"A", "B", "C">>

\* the last call was a QueryInterface for an identifier that is neither the
\* enumerator's own nor IUnknown
UnsupportedQuery == last.op = "QueryInterface" /\ last.iid \notin {IID_Enum, IID_IUnknown}

\* C4 as stated: an unsupported QueryInterface fails with E_NOINTERFACE, leaves
\* the caller's output slot as it was before the call and leaves the reference
\* count unchanged.
C4_OutputUntouched ==
    UnsupportedQuery =>
        /\ last.hr = E_NOINTERFACE
        /\ last.iface = last.before
        /\ Post = Pre

\* C4 as amended: an unsupported QueryInterface fails with E_NOINTERFACE, sets
\* the caller's output slot to NULL whatever it held, and leaves the reference
\* count (and the rest of the enumerator) unchanged.
C4_OutputCleared ==
    UnsupportedQuery =>
        /\ last.hr = E_NOINTERFACE
        /\ last.iface = NULL
        /\ Post = Pre

C4_Witness ==
    /\ UnsupportedQuery
    /\ last.before = Stale
    /\ last.iface = NULL
    /\ Pre.m_refCount = 2

\* C5: QueryInterface succeeds if and only if the identifier is the enumerator's
\* own or IUnknown; on success the output refers to the same enumerator, the
\* reference count is one greater than before, cursor and sequence unchanged.
C5_QuerySucceeds ==
    last.op = "QueryInterface" =>
        /\ last.hr = S_OK <=> last.iid \in {IID_Enum, IID_IUnknown}
        /\ last.hr = S_OK =>
              /\ last.iface = last.e
              /\ Post = [Pre EXCEPT !.m_refCount = Pre.m_refCount + 1]

C5_Witness ==
    /\ last.op = "QueryInterface"
    /\ last.iid = IID_IUnknown
    /\ last.hr = S_OK
    /\ PreCursor = 2
    /\ Post.m_refCount = 2

\* C6: Release decrements the count by one and returns the remaining count; it
\* destroys the enumerator exactly when that is zero, and otherwise the
\* enumerator stays alive with count >= 1.  AddRef increments the count by one
\* and returns the new count.  A live enumerator always has count >= 1.
C6_RefCounting ==
    /\ last.op = "Release" =>
          /\ last.ret = Pre.m_refCount - 1
          /\ ~Post.live <=> last.ret = 0
          /\ last.ret # 0 => Post = [Pre EXCEPT !.m_refCount = last.ret]
    /\ last.op = "AddRef" =>
          /\ last.ret = Pre.m_refCount + 1
          /\ Post = [Pre EXCEPT !.m_refCount = last.ret]
    /\ \A e \in EnumIds : heap[e].live => heap[e].m_refCount >= 1

C6_Witness ==
    /\ last.op = "Release"
    /\ Pre.m_refCount = 1
    /\ last.ret = 0
    /\ ~Post.live
    /\ \E e \in EnumIds : heap[e].live /\ heap[e].m_refCount = 2

\* C7: under every interleaving of AddRef and Release by independent threads
\* that release only references they hold, no update is lost (the count equals
\* the references outstanding), the enumerator is destroyed at most once, only
\* by the Release whose decrement returned zero, exactly once when every
\* reference is gone and every Release has returned, and no AddRef/Release of
\* a reference holder touches a destroyed enumerator.
C7_ConcurrentRefCount ==
    /\ destroyed = <<>> => m_refCount = Outstanding
    /\ Len(destroyed) <= 1
    /\ destroyed # <<>> =>
          /\ refCount[destroyed[1]] = 0
          /\ Outstanding = 0
    /\ (Outstanding = 0 /\ \A t \in Threads : pc[t] = "idle") => Len(destroyed) = 1
    /\ ~misuse

C7_Witness ==
    /\ destroyed = <<"t2">>
    /\ refCount["t1"] = 1
    /\ refCount["t3"] = 2
    /\ \A t \in Threads : pc[t] = "idle"

\* C8: after any sequence of calls by a single caller (any arguments, any count
\* of the 32 bit range) every cursor satisfies 0 <= cursor <= N, the assertions
\* at entry and exit of Next hold, and the cursor never wrapped around: Next and
\* Skip never leave it below where it was.
C8_CursorInRange ==
    /\ \A e \in EnumIds :
          heap[e].live => ~ULongLess(ULONG(Count(heap[e].m_elements)), heap[e].m_currentElement)
    /\ last.asserts
    /\ last.op \in {"Next", "Skip"} => ~ULongLess(Post.m_currentElement, Pre.m_currentElement)

C8_Witness ==
    /\ last.op = "Skip"
    /\ last.count = ULONG_MAX
    /\ PreCursor = 2
    /\ Post.m_currentElement = ULONG(3)

\* max(0, N - m) for a ULONG m
RemainingAfter(m) == IF ULongLess(ULONG(PreN), m) THEN 0 ELSE PreN - Val(m)

\* C9: Skip(count) advances the cursor by exactly min(count, N - cursor), returns
\* S_OK exactly when that amount equals count and S_FALSE otherwise, never an
\* error; Skip(m) on a fresh enumerator followed by GetCount yields max(0, N - m).
C9_SkipClamps ==
    last.op = "Skip" =>
        LET n == MinOf(last.count, PreN - PreCursor)
        IN  /\ Post = [Pre EXCEPT !.m_currentElement = ULONG(PreCursor + n)]
            /\ last.hr \in {S_OK, S_FALSE}
            /\ last.hr = S_OK <=> ULONG(n) = last.count
            /\ Pre = ProfilerEnum(source) =>
                  GetCountOp(Post, TRUE, StaleULONG) =
                      [hr |-> S_OK, count |-> ULONG(RemainingAfter(last.count))]

C9_Witness ==
    /\ last.op = "Skip"
    /\ Pre = ProfilerEnum(source)
    /\ PreN = 3
    /\ last.count = ULONG(2)
    /\ last.hr = S_OK
    /\ GetCountOp(Post, TRUE, StaleULONG).count = ULONG(1)

\* C10: Reset always succeeds and sets the cursor to 0 from any state, so that
\* after Reset GetCount yields N and a following Next(N) returns the entire
\* original sequence in order.
C10_ResetRestarts ==
    last.op = "Reset" =>
        /\ last.hr = S_OK
        /\ Post = [Pre EXCEPT !.m_currentElement = ULONG(0)]
        /\ GetCountOp(Post, TRUE, StaleULONG) = [hr |-> S_OK, count |-> ULONG(Len(source))]
        /\ LET r == NextOp(Post, ULONG(Len(source)), TRUE, Buffer(ULONG(Len(source))),
                           TRUE, StaleULONG)
           IN  /\ r.hr = S_OK
               /\ Yield(r.elements) = source
               /\ r.fetched = ULONG(Len(source))

C10_Witness ==
    /\ last.op = "Reset"
    /\ PreN = 3
    /\ PreCursor = 3
    /\ Post.m_currentElement = ULONG(0)

\* C11: GetCount with an output slot yields N - cursor (what remains, not the
\* total) and does not change the cursor, so it yields N right after
\* construction from a sequence of length N; with the output slot absent it
\* fails with E_INVALIDARG and changes nothing.
C11_GetCountRemaining ==
    last.op = "GetCount" =>
        /\ heap = last.pre
        /\ last.hasOut =>
              /\ last.hr = S_OK
              /\ last.fetched = ULONG(PreN - PreCursor)
              /\ Pre = ProfilerEnum(source) => last.fetched = ULONG(Len(source))
        /\ ~last.hasOut =>
              /\ last.hr = E_INVALIDARG
              /\ last.fetched = StaleULONG

C11_Witness ==
    /\ last.op = "GetCount"
    /\ last.hasOut
    /\ PreN = 3
    /\ PreCursor = 1
    /\ last.fetched = ULONG(2)

\* C12: a successful Clone at any source cursor makes a new enumerator whose
\* sequence equals the source's full sequence, element for element, with
\* cursor 0 and reference count 1, so GetCount on the clone yields N; the
\* source's cursor and reference count are unchanged by the call.
C12_CloneIsFullCopy ==
    (last.op = "Clone" /\ last.hr = S_OK) =>
        /\ last.iface \in EnumIds \ {last.e}
        /\ ~last.pre[last.iface].live
        /\ heap[last.iface] = [live |-> TRUE, m_elements |-> Pre.m_elements,
                               m_currentElement |-> ULONG(0), m_refCount |-> 1]
        /\ Pre.m_elements = source
        /\ GetCountOp(heap[last.iface], TRUE, StaleULONG) = [hr |-> S_OK, count |-> ULONG(PreN)]
        /\ Post = Pre

C12_Witness ==
    /\ last.op = "Clone"
    /\ last.hr = S_OK
    /\ PreN = 3
    /\ PreCursor = 2
    /\ Pre.m_refCount = 2
    /\ heap[last.iface].m_elements = <<"A", "B", "C">>

\* C13: source and clone are independent: a call on one of them (Next, Skip,
\* Reset, AddRef, Release, also the Release that destroys it, and every other
\* call) leaves the other's cursor, reference count and sequence unchanged.
C13_CloneIndependent ==
    last.op # "none" =>
        \A f \in EnumIds \ {last.e} : last.pre[f].live => heap[f] = last.pre[f]

C13_Witness ==
    /\ last.op = "Release"
    /\ last.e = "e1"
    /\ ~heap["e1"].live
    /\ heap["e2"] = [live |-> TRUE, m_elements |-> <<"A", "B", "C">>,
                     m_currentElement |-> ULONG(2), m_refCount |-> 2]

\* C14: when the copy cannot be allocated Clone fails with E_OUTOFMEMORY and
\* sets its output to NULL; when the output slot is absent it fails with
\* E_INVALIDARG; either way the source's cursor, sequence and reference count
\* (the whole heap) are as before the call, so every later call behaves as if
\* the failed one had not happened.
C14_CloneFailure ==
    last.op = "Clone" =>
        /\ ~last.hasOut => last.hr = E_INVALIDARG
        /\ (last.hasOut /\ ~last.allocated) =>
              /\ last.hr = E_OUTOFMEMORY
              /\ last.iface = NULL
        /\ last.hr # S_OK =>
              /\ last.hr \in {E_OUTOFMEMORY, E_INVALIDARG}
              /\ heap = last.pre
              /\ Post.live

C14_Witness ==
    /\ last.op = "Clone"
    /\ last.hasOut
    /\ ~last.allocated
    /\ last.before = Stale
    /\ last.iface = NULL
    /\ last.hr = E_OUTOFMEMORY
    /\ PreCursor = 2
    /\ Pre.m_refCount = 2

\* the buffer the last Next was handed, as it was before the call
BufferBefore == IF last.hasBuf THEN Buffer(last.count) ELSE <<>>

\* C15: Next returns E_INVALIDARG exactly when (requestedCount > 1 and the
\* fetched-count output is absent) or (requestedCount > 0 and the buffer is
\* absent); then the cursor is unchanged, nothing is written to the buffer or
\* to the fetched-count output, and the enumerator is as it was.
C15_NextInvalidArg ==
    last.op = "Next" =>
        /\ last.hr = E_INVALIDARG <=>
              \/ ULongLess(ULONG(1), last.count) /\ ~last.hasOut
              \/ ULongLess(ULONG(0), last.count) /\ ~last.hasBuf
        /\ last.hr = E_INVALIDARG =>
              /\ heap = last.pre
              /\ Post.live
              /\ last.buf = BufferBefore
              /\ last.fetched = StaleULONG

C15_Witness ==
    /\ last.op = "Next"
    /\ last.count = ULONG(2)
    /\ last.hasBuf
    /\ ~last.hasOut
    /\ last.hr = E_INVALIDARG
    /\ PreN = 3
    /\ PreCursor = 1

\* C16: Next with requestedCount = 0 returns S_OK whatever the cursor and
\* whether or not the buffer and the fetched-count output are present; it sets
\* fetched = 0 when that output is present, does not touch the buffer and
\* leaves the cursor (and the rest of the enumerator) unchanged.
C16_NextZero ==
    (last.op = "Next" /\ last.count = ULONG(0)) =>
        /\ last.hr = S_OK
        /\ last.fetched = IF last.hasOut THEN ULONG(0) ELSE StaleULONG
        /\ last.buf = BufferBefore
        /\ heap = last.pre

C16_Witness ==
    /\ last.op = "Next"
    /\ last.count = ULONG(0)
    /\ ~last.hasBuf
    /\ ~last.hasOut
    /\ last.hr = S_OK
    /\ PreN = 3
    /\ PreCursor = 3

\* what was left to read when the consumer started
DrainRemaining == SubSeq(source, drain.start + 1, Len(source))

\* what the consumer holds is the beginning of what was left, in order, each
\* element once; a call that fetched nothing returned S_FALSE, by then
\* everything left had been received, and no call after it fetched anything
DrainSafe ==
    /\ Len(drain.got) <= Len(DrainRemaining)
    /\ drain.got = SubSeq(DrainRemaining, 1, Len(drain.got))
    /\ drain.zeroHrs \subseteq {S_FALSE}
    /\ drain.zero => drain.got = DrainRemaining
    /\ drain.late = 0

\* C17: from any cursor, a consumer that keeps calling Next(k >= 1) without
\* Reset eventually gets a call that fetches nothing and returns S_FALSE; what
\* it received before is exactly the elements from the starting cursor to the
\* end, each once and in order; every later Next(k >= 1) fetches nothing too.
C17_DrainEnds == []DrainSafe /\ <>(drain.zero /\ drain.got = DrainRemaining)

C17_Witness ==
    /\ drain.zero
    /\ drain.start = 1
    /\ drain.got = <<"B", "C">>
    /\ drain.calls = MaxCalls
    /\ drain.zeroHrs = {S_FALSE}

\* the domains that hold the module, in walk order
RECURSIVE MatchingFrom(_, _)
MatchingFrom(loaded, d) ==
    IF d > Len(loaded) THEN <<>>
    ELSE (IF loaded[d] # "none" THEN <<Domains[d]>> ELSE <<>>) \o MatchingFrom(loaded, d + 1)

Matching == MatchingFrom(rev.loaded, 1)

SmallerOf(a, b) == IF a < b THEN a ELSE b

\* C18: after the scan, for a module held by M domains and a capacity C: the
\* required count is M whatever C is; exactly min(M, C) identifiers were
\* written, the first min(M, C) matching domains in walk order, none at an
\* index >= C; the result is buffer-too-small exactly when M > C and success
\* otherwise.
C18_ReverseIndex ==
    rev.hr # "none" =>
       LET M == Len(Matching)
           C == rev.m_cAppDomainIds
           n == SmallerOf(M, C)
       IN  /\ rev.pcAppDomainIds = M
           /\ rev.m_index = n
           /\ SubSeq(rev.m_rgAppDomainIds, 1, n) = SubSeq(Matching, 1, n)
           /\ \A i \in (n + 1)..Len(rev.m_rgAppDomainIds) : rev.m_rgAppDomainIds[i] = Junk
           /\ rev.hr = (IF M > C THEN ERROR_INSUFFICIENT_BUFFER ELSE S_OK)
           /\ rev.walked = Len(rev.loaded)

\* private in D1 and D3, shared-visible to D2, capacity 2
C18_Witness ==
    /\ rev.hr = ERROR_INSUFFICIENT_BUFFER
    /\ \A d \in DOMAIN rev.loaded :
          rev.loaded[d] = (IF d \in {1, 3} THEN "private" ELSE IF d = 2 THEN "shared" ELSE "none")
    /\ Len(rev.loaded) >= 3
    /\ rev.m_cAppDomainIds = 2
    /\ rev.pcAppDomainIds = 3
    /\ rev.m_index = 2
    /\ Yield(rev.m_rgAppDomainIds) = <<"D1", "D2">>

\* C19: the backing sequence of every live enumerator, clones included, is the
\* sequence copied at construction, whatever calls were made; Next, Skip and
\* Reset leave the reference count, AddRef, Release and QueryInterface leave
\* the cursor, GetCount and Clone leave the enumerator as it was.
C19_SequenceFrozen ==
    /\ \A e \in Live : heap[e].m_elements = source
    /\ last.op \in {"Next", "Skip", "Reset"} =>
          /\ Post.live
          /\ Post.m_refCount = Pre.m_refCount
    /\ (last.op \in {"AddRef", "Release", "QueryInterface"} /\ Post.live) =>
          Post.m_currentElement = Pre.m_currentElement
    /\ last.op \in {"GetCount", "Clone"} => Post = Pre

C19_Witness ==
    /\ last.op = "Next"
    /\ last.hr = S_OK
    /\ source = <<"A", "B", "C">>
    /\ PreCursor = 1
    /\ Post.m_currentElement = ULONG(3)
    /\ Post.m_elements = <<"A", "B", "C">>
    /\ Post.m_refCount = 2
    /\ \E f \in Live \ {last.e} : heap[f].m_currentElement = ULONG(2)

\* C20: Next(1, buffer, no fetched-count output) is accepted: below the end it
\* copies the element at the cursor, advances the cursor by one and returns
\* S_OK; at the end it copies nothing, leaves the cursor and returns S_FALSE.
C20_NextOneNoFetched ==
    (last.op = "Next" /\ last.count = ULONG(1) /\ last.hasBuf /\ ~last.hasOut) =>
        /\ last.fetched = StaleULONG
        /\ IF PreCursor < PreN
           THEN /\ last.hr = S_OK
                /\ last.buf = [BufferBefore EXCEPT ![1] = Pre.m_elements[PreCursor + 1]]
                /\ Post = [Pre EXCEPT !.m_currentElement = ULONG(PreCursor + 1)]
           ELSE /\ last.hr = S_FALSE
                /\ last.buf = BufferBefore
                /\ Post = Pre

C20_Witness ==
    /\ last.op = "Next"
    /\ last.count = ULONG(1)
    /\ last.hasBuf
    /\ ~last.hasOut
    /\ PreN = 3
    /\ PreCursor = 2
    /\ last.hr = S_OK
    /\ Yield(last.buf) = <<"C">>
    /\ Post.m_currentElement = ULONG(3)

====
